---- MODULE Spec2Model ----
(***************************************************************************)
(* State-machine model of the Mirage RPC endpoint pair:                    *)
(*   mirage_rpc_server (src/src/mirage_rpc_server.h)                       *)
(*   mirage_rpc_client (src/src/mirage_rpc_client.h)                       *)
(* One endpoint object is modelled per behaviour (role chosen in Init).    *)
(* Caller threads invoke the public methods; the gRPC thread and the ZMQ   *)
(* thread run start_grpc / start_zmq.  Every method is split at the points *)
(* where another thread can interleave (lock acquisition, thread join,     *)
(* atomic flag access, socket I/O).                                        *)
(***************************************************************************)
EXTENDS Integers, Sequences, FiniteSets, TLC

\* ------------------------------------------------------------ bounds
MaxStarts == 2         \* start()/connect() calls in one behaviour
MaxStops == 2          \* stop()/disconnect() calls in one behaviour
MaxSends == 2          \* payloads the caller threads enqueue in one behaviour
ZmqHwm == 1            \* value given to config.zmq_hwm by the callers

Callers == {"c1", "c2"}

\* the call sequences explored: how many start, stop and accepted zmq_send
\* calls the caller threads make in one behaviour
Budgets ==
    { [start |-> MaxStarts, stop |-> MaxStops, send |-> 0],
      [start |-> 1, stop |-> 1, send |-> MaxSends],
      [start |-> MaxStarts, stop |-> 1, send |-> 1] }
NoMsg == <<>>          \* data == nullptr or size == 0

\* ------------------------------------------------------------ configuration
SocketTypes == {"pub", "sub", "push", "pull", "req", "rep"}

\* mirage_rpc_config as the callers fill it in
MkConfig(g, z, t) ==
    [grpc_addr |-> g, zmq_addr |-> z, zmq_socket_type |-> t, zmq_hwm |-> ZmqHwm]

DefaultServerConfig == [grpc_addr |-> "", zmq_addr |-> "",
                        zmq_socket_type |-> "pub", zmq_hwm |-> 1000]

ServerConfigs ==
    { MkConfig("0.0.0.0:50051", "tcp://*:5555", "pub"),
      MkConfig("0.0.0.0:50051", "tcp://*:5555", "push"),
      MkConfig("0.0.0.0:50051", "tcp://*:5555", "pull"),
      MkConfig("0.0.0.0:65536", "tcp://*:5555", "pub"),
      MkConfig("", "tcp://*:5555", "pub"),
      MkConfig("0.0.0.0:50051", "", "pub") }

DefaultClientConfig == [grpc_addr |-> "", zmq_addr |-> "", zmq_socket_type |-> "sub"]

\* mirage_rpc_client_config as the callers fill it in
ClientConfigs ==
    { [grpc_addr |-> "127.0.0.1:50051", zmq_addr |-> "tcp://127.0.0.1:5555",
       zmq_socket_type |-> "sub"],
      [grpc_addr |-> "127.0.0.1:50051", zmq_addr |-> "tcp://127.0.0.1:5555",
       zmq_socket_type |-> "pub"],
      [grpc_addr |-> "127.0.0.1:50051", zmq_addr |-> "tcp://127.0.0.1:5555",
       zmq_socket_type |-> "pull"],
      [grpc_addr |-> "", zmq_addr |-> "tcp://127.0.0.1:5555", zmq_socket_type |-> "sub"],
      [grpc_addr |-> "127.0.0.1:50051", zmq_addr |-> "", zmq_socket_type |-> "sub"] }

\* validate_config(): TRUE when no exception is thrown
validate_config(cfg) == cfg.grpc_addr # "" /\ cfg.zmq_addr # ""

\* the socket types for which start_zmq attempts a receive
CanRecv(t) == t \in {"sub", "pull", "rep"}

\* the socket types the client's zmq_send accepts
ClientCanSend(t) == t \in {"pub", "push", "req"}

\* ------------------------------------------------------------ state
VARIABLES
    role,                \* which endpoint class this behaviour is about
    config,              \* the configuration object a caller fills in (mirage_rpc_config)
    proc,                \* "ok" | "terminated" (std::terminate) | "ub" | "destroyed"
    config_,             \* config_
    running_,            \* std::atomic<bool> running_
    mutex_,              \* owner of mutex_ ("free" or a thread)
    queue_mutex_,        \* owner of queue_mutex_
    zmq_message_queue_,  \* std::queue<zmq::message_t>
    grpc_server_,        \* "null" | "serving" | "shut"
    context_,            \* context_ != nullptr
    socket_,             \* socket_ != nullptr
    grpc_thread_,        \* grpc_thread_.joinable()
    zmq_thread_,         \* zmq_thread_.joinable()
    gpc,                 \* position of the thread running start_grpc
    zpc,                 \* position of the thread running start_zmq
    inflight,            \* message local to process_send_queue
    cop,                 \* method each caller thread is executing
    cpc,                 \* its position in that method
    budget,              \* method calls the caller threads may still make
    nsent,               \* payloads each caller has enqueued so far
    sent,                \* payloads the socket accepted, in order
    dropped,             \* payloads dequeued and destroyed without being accepted
    faulted,             \* a worker catch block has cleared running_ in this lifecycle
    ev,                  \* what the last step surfaced (return value, exception, fault)
    connected_,          \* client: std::atomic<bool> connected_
    socket_mutex_,       \* client: owner of socket_mutex_
    grpc_channel_        \* client: grpc_channel_ != nullptr

vars == <<role, config, proc, config_, running_, mutex_, queue_mutex_, zmq_message_queue_,
          grpc_server_, context_, socket_, grpc_thread_, zmq_thread_, gpc, zpc,
          inflight, cop, cpc, budget, nsent, sent, dropped, faulted, ev,
          connected_, socket_mutex_, grpc_channel_>>

\* state only the client class has, and state only the server class has
cliOnly == <<connected_, socket_mutex_, grpc_channel_>>
srvOnly == <<running_, queue_mutex_, zmq_message_queue_, grpc_server_, grpc_thread_,
             gpc, inflight>>

\* the next distinct payload of caller c: <<producer, sequence number>>
NextPayload(c) == <<c, nsent[c] + 1>>

E(k, m) == [k |-> k, m |-> m]
NoEv == E("none", NoMsg)

Alive == proc = "ok"

Init ==
    /\ role \in {"server", "client"}
    /\ config = IF role = "server" THEN DefaultServerConfig ELSE DefaultClientConfig
    /\ proc = "ok"
    /\ config_ = IF role = "server" THEN DefaultServerConfig ELSE DefaultClientConfig
    /\ connected_ = FALSE
    /\ socket_mutex_ = "free"
    /\ grpc_channel_ = FALSE
    /\ running_ = FALSE
    /\ mutex_ = "free"
    /\ queue_mutex_ = "free"
    /\ zmq_message_queue_ = <<>>
    /\ grpc_server_ = "null"
    /\ context_ = FALSE
    /\ socket_ = FALSE
    /\ grpc_thread_ = FALSE
    /\ zmq_thread_ = FALSE
    /\ gpc = "idle"
    /\ zpc = "idle"
    /\ inflight = NoMsg
    /\ cop = [c \in Callers |-> "none"]
    /\ cpc = [c \in Callers |-> "idle"]
    /\ budget \in Budgets
    /\ nsent = [c \in Callers |-> 0]
    /\ sent = <<>>
    /\ dropped = {}
    /\ faulted = FALSE
    /\ ev = NoEv

\* a caller's method returns (or throws) with outcome k
Return(c, k) ==
    /\ cop' = [cop EXCEPT ![c] = "none"]
    /\ cpc' = [cpc EXCEPT ![c] = "idle"]
    /\ ev' = E(k, NoMsg)

Goto(c, p) ==
    /\ cpc' = [cpc EXCEPT ![c] = p]
    /\ UNCHANGED cop
    /\ ev' = NoEv

At(c, op, p) == Alive /\ cop[c] = op /\ cpc[c] = p

\* ------------------------------------------------------------ server: start()
\* a caller thread calls start(config, services...)
start_call(c) ==
    /\ Alive /\ role = "server" /\ cop[c] = "none"
    /\ budget.start > 0
    /\ budget' = [budget EXCEPT !.start = @ - 1]
    /\ cop' = [cop EXCEPT ![c] = "start"]
    /\ cpc' = [cpc EXCEPT ![c] = "lock"]
    /\ ev' = NoEv
    /\ UNCHANGED <<role, config, cliOnly, proc, config_, running_, mutex_, queue_mutex_,
                   zmq_message_queue_, grpc_server_, context_, socket_, grpc_thread_,
                   zmq_thread_, gpc, zpc, inflight, nsent, sent, dropped, faulted>>

\* lock_guard(mutex_); the running_ check; config_ = config; validate_config()
start_lock(c, cfg) ==
    /\ At(c, "start", "lock") /\ mutex_ = "free"
    /\ IF running_
         THEN /\ Return(c, "start_noop")
              /\ UNCHANGED <<config_, mutex_>>
         ELSE /\ config_' = cfg
              /\ mutex_' = c
              /\ IF validate_config(cfg)
                   THEN Goto(c, "spawn")
                   ELSE Goto(c, "cl_socket")
    /\ UNCHANGED <<role, config, cliOnly, budget, proc, running_, queue_mutex_, zmq_message_queue_,
                   grpc_server_, context_, socket_, grpc_thread_, zmq_thread_, gpc,
                   zpc, inflight, nsent, sent, dropped, faulted>>

\* grpc_thread_ = std::thread(...); zmq_thread_ = std::thread(...)
\* Move-assigning onto a joinable std::thread calls std::terminate; the
\* std::thread constructor may throw std::system_error.
start_spawn(c) ==
    /\ At(c, "start", "spawn")
    /\ \/ /\ grpc_thread_
          /\ proc' = "terminated"
          /\ ev' = E("terminate", NoMsg)
          /\ UNCHANGED <<grpc_thread_, zmq_thread_, gpc, zpc, cop, cpc, faulted>>
       \/ /\ ~grpc_thread_
          /\ Goto(c, "cl_socket")
          /\ UNCHANGED <<proc, grpc_thread_, zmq_thread_, gpc, zpc, faulted>>
       \/ /\ ~grpc_thread_
          /\ grpc_thread_' = TRUE /\ gpc' = "build"
          /\ IF zmq_thread_
               THEN /\ proc' = "terminated"
                    /\ ev' = E("terminate", NoMsg)
                    /\ UNCHANGED <<zmq_thread_, zpc, cop, cpc, faulted>>
               ELSE /\ \E spawned \in BOOLEAN :
                         IF spawned
                           THEN /\ zmq_thread_' = TRUE /\ zpc' = "setup"
                                /\ faulted' = FALSE
                                /\ Goto(c, "store")
                           ELSE /\ Goto(c, "cl_socket")
                                /\ UNCHANGED <<zmq_thread_, zpc, faulted>>
                    /\ UNCHANGED proc
    /\ UNCHANGED <<role, config, cliOnly, budget, config_, running_, mutex_, queue_mutex_,
                   zmq_message_queue_, grpc_server_, context_, socket_, inflight,
                   nsent, sent, dropped>>

\* running_.store(true); return (releasing mutex_)
start_store(c) ==
    /\ At(c, "start", "store")
    /\ running_' = TRUE
    /\ mutex_' = "free"
    /\ Return(c, "start_ok")
    /\ UNCHANGED <<role, config, cliOnly, budget, proc, config_, queue_mutex_, zmq_message_queue_,
                   grpc_server_, context_, socket_, grpc_thread_, zmq_thread_, gpc,
                   zpc, inflight, nsent, sent, dropped, faulted>>

\* ------------------------------------------------------------ server: stop(), ~mirage_rpc_server()
LifecycleOps == {"start", "stop", "destroy"}

\* a caller thread calls stop()
stop_call(c) ==
    /\ Alive /\ role = "server" /\ cop[c] = "none"
    /\ budget.stop > 0
    /\ budget' = [budget EXCEPT !.stop = @ - 1]
    /\ cop' = [cop EXCEPT ![c] = "stop"]
    /\ cpc' = [cpc EXCEPT ![c] = "lock"]
    /\ ev' = NoEv
    /\ UNCHANGED <<role, config, cliOnly, proc, config_, running_, mutex_, queue_mutex_,
                   zmq_message_queue_, grpc_server_, context_, socket_, grpc_thread_,
                   zmq_thread_, gpc, zpc, inflight, nsent, sent, dropped,
                   faulted>>

\* the destructor runs on a thread when no other thread is inside a method
destroy_call(c) ==
    /\ Alive /\ role = "server"
    /\ \A d \in Callers : cop[d] = "none"
    /\ cop' = [cop EXCEPT ![c] = "destroy"]
    /\ cpc' = [cpc EXCEPT ![c] = "lock"]
    /\ ev' = NoEv
    /\ UNCHANGED <<role, config, cliOnly, budget, proc, config_, running_, mutex_, queue_mutex_,
                   zmq_message_queue_, grpc_server_, context_, socket_, grpc_thread_,
                   zmq_thread_, gpc, zpc, inflight, nsent, sent, dropped,
                   faulted>>

\* lock_guard(mutex_); if (!running_) return; running_ = false; notify_all;
\* if (grpc_server_) grpc_server_->Shutdown()
stop_lock(c) ==
    /\ Alive /\ cop[c] \in {"stop", "destroy"} /\ cpc[c] = "lock"
    /\ role = "server"
    /\ mutex_ = "free"
    /\ IF ~running_
         THEN /\ IF cop[c] = "stop" THEN Return(c, "stop_noop") ELSE Goto(c, "dtor")
              /\ UNCHANGED <<running_, mutex_, grpc_server_>>
         ELSE /\ running_' = FALSE
              /\ mutex_' = c
              /\ grpc_server_' = IF grpc_server_ = "null" THEN "null" ELSE "shut"
              /\ Goto(c, "join_grpc")
    /\ UNCHANGED <<role, config, cliOnly, budget, proc, config_, queue_mutex_, zmq_message_queue_, context_,
                   socket_, grpc_thread_, zmq_thread_, gpc, zpc, inflight, nsent,
                   sent, dropped, faulted>>

\* if (grpc_thread_.joinable()) grpc_thread_.join()
stop_join_grpc(c) ==
    /\ Alive /\ cop[c] \in {"stop", "destroy"} /\ cpc[c] = "join_grpc"
    /\ role = "server"
    /\ IF grpc_thread_
         THEN /\ gpc = "done"
              /\ grpc_thread_' = FALSE
              /\ gpc' = "idle"
         ELSE UNCHANGED <<grpc_thread_, gpc>>
    /\ Goto(c, "join_zmq")
    /\ UNCHANGED <<role, config, cliOnly, budget, proc, config_, running_, mutex_, queue_mutex_,
                   zmq_message_queue_, grpc_server_, context_, socket_, zmq_thread_,
                   zpc, inflight, nsent, sent, dropped, faulted>>

\* stop() letting go of zmq_thread_ without waiting for start_zmq to return
stop_join_zmq_detach(c) ==
    /\ Alive /\ cop[c] \in {"stop", "destroy"} /\ cpc[c] = "join_zmq"
    /\ role = "server"
    /\ zmq_thread_' = FALSE
    /\ zpc' = IF zpc = "done" THEN "idle" ELSE zpc
    /\ Goto(c, "cl_socket")
    /\ UNCHANGED <<role, config, cliOnly, budget, proc, config_, running_, mutex_, queue_mutex_,
                   zmq_message_queue_, grpc_server_, context_, socket_, grpc_thread_,
                   gpc, inflight, nsent, sent, dropped, faulted>>

\* if (zmq_thread_.joinable()) zmq_thread_.join()
stop_join_zmq(c) ==
    /\ Alive /\ cop[c] \in {"stop", "destroy"} /\ cpc[c] = "join_zmq"
    /\ role = "server"
    /\ IF zmq_thread_
         THEN /\ zpc = "done"
              /\ zmq_thread_' = FALSE
              /\ zpc' = "idle"
         ELSE UNCHANGED <<zmq_thread_, zpc>>
    /\ Goto(c, "cl_socket")
    /\ UNCHANGED <<role, config, cliOnly, budget, proc, config_, running_, mutex_, queue_mutex_,
                   zmq_message_queue_, grpc_server_, context_, socket_, grpc_thread_,
                   gpc, inflight, nsent, sent, dropped, faulted>>

\* ------------------------------------------------------------ server: cleanup_resources()
\* if (socket_) { close; reset }  if (context_) { close; reset }
\* grpc_server_.reset()
cleanup_handles(c) ==
    /\ Alive /\ role = "server" /\ cop[c] \in LifecycleOps /\ cpc[c] = "cl_socket"
    /\ socket_' = FALSE
    /\ context_' = FALSE
    /\ grpc_server_' = "null"
    /\ Goto(c, "cl_queue")
    /\ UNCHANGED <<role, config, cliOnly, budget, proc, config_, running_, mutex_, queue_mutex_,
                   zmq_message_queue_, grpc_thread_, zmq_thread_, gpc, zpc, inflight,
                   nsent, sent, dropped, faulted>>

\* lock_guard(queue_mutex_); zmq_message_queue_.swap(empty_queue); then the
\* caller of cleanup_resources leaves: start() rethrows, stop() returns
cleanup_queue(c) ==
    /\ Alive /\ role = "server" /\ cop[c] \in LifecycleOps /\ cpc[c] = "cl_queue"
    /\ queue_mutex_ = "free"
    /\ zmq_message_queue_' = <<>>
    /\ mutex_' = "free"
    /\ CASE cop[c] = "start" -> Return(c, "start_err")
         [] cop[c] = "stop" -> Return(c, "stop_done")
         [] OTHER -> Goto(c, "dtor")
    /\ UNCHANGED <<role, config, cliOnly, budget, proc, config_, running_, queue_mutex_, grpc_server_,
                   context_, socket_, grpc_thread_, zmq_thread_, gpc, zpc, inflight,
                   nsent, sent, dropped, faulted>>

\* member destructors after ~mirage_rpc_server()'s stop(): ~thread on a
\* joinable handle calls std::terminate
destroy_members(c) ==
    /\ At(c, "destroy", "dtor") /\ role = "server"
    /\ proc' = IF grpc_thread_ \/ zmq_thread_ THEN "terminated" ELSE "destroyed"
    /\ ev' = E(IF grpc_thread_ \/ zmq_thread_ THEN "terminate" ELSE "destroyed", NoMsg)
    /\ UNCHANGED <<role, config, cliOnly, budget, config_, running_, mutex_, queue_mutex_, zmq_message_queue_,
                   grpc_server_, context_, socket_, grpc_thread_, zmq_thread_, gpc,
                   zpc, inflight, cop, cpc, nsent, sent, dropped, faulted>>

\* ------------------------------------------------------------ server: zmq_send()
\* zmq_send without its running_ test: every non-empty payload is enqueued
zmq_send_call_unchecked(c, p) ==
    /\ Alive /\ role = "server" /\ cop[c] = "none"
    /\ IF p = NoMsg
         THEN /\ ev' = E("send_invalid", NoMsg)
              /\ UNCHANGED <<cop, cpc, budget>>
         ELSE /\ cop' = [cop EXCEPT ![c] = "zmq_send"]
              /\ cpc' = [cpc EXCEPT ![c] = "zs_lock"]
              /\ budget' = [budget EXCEPT !.send = @ - 1]
              /\ ev' = NoEv
    /\ UNCHANGED <<role, config, cliOnly, proc, config_, running_, mutex_, queue_mutex_,
                   zmq_message_queue_, grpc_server_, context_, socket_, grpc_thread_,
                   zmq_thread_, gpc, zpc, inflight, nsent, sent, dropped, faulted>>

\* the argument and running_ checks of zmq_send(data, size)
zmq_send_call(c, p) ==
    /\ Alive /\ role = "server" /\ cop[c] = "none"
    /\ IF p = NoMsg
         THEN /\ ev' = E("send_invalid", NoMsg)
              /\ UNCHANGED <<cop, cpc, budget>>
         ELSE IF ~running_
           THEN /\ ev' = E("send_notrunning", NoMsg)
                /\ UNCHANGED <<cop, cpc, budget>>
           ELSE /\ cop' = [cop EXCEPT ![c] = "zmq_send"]
                /\ cpc' = [cpc EXCEPT ![c] = "zs_lock"]
                /\ budget' = [budget EXCEPT !.send = @ - 1]
                /\ ev' = NoEv
    /\ UNCHANGED <<role, config, cliOnly, proc, config_, running_, mutex_, queue_mutex_,
                   zmq_message_queue_, grpc_server_, context_, socket_, grpc_thread_,
                   zmq_thread_, gpc, zpc, inflight, nsent, sent, dropped, faulted>>

\* lock_guard(queue_mutex_)
zmq_send_lock(c) ==
    /\ At(c, "zmq_send", "zs_lock") /\ role = "server"
    /\ queue_mutex_ = "free"
    /\ queue_mutex_' = c
    /\ Goto(c, "zs_push")
    /\ UNCHANGED <<role, config, cliOnly, budget, proc, config_, running_, mutex_, zmq_message_queue_,
                   grpc_server_, context_, socket_, grpc_thread_, zmq_thread_, gpc,
                   zpc, inflight, nsent, sent, dropped, faulted>>

\* zmq_message_queue_.push(message); unlock; cv_.notify_one()
zmq_send_push(c) ==
    /\ At(c, "zmq_send", "zs_push") /\ role = "server"
    /\ zmq_message_queue_' = Append(zmq_message_queue_, NextPayload(c))
    /\ queue_mutex_' = "free"
    /\ nsent' = [nsent EXCEPT ![c] = @ + 1]
    /\ cop' = [cop EXCEPT ![c] = "none"]
    /\ cpc' = [cpc EXCEPT ![c] = "idle"]
    /\ ev' = E("send_ok", NextPayload(c))
    /\ UNCHANGED <<role, config, cliOnly, budget, proc, config_, running_, mutex_, grpc_server_, context_,
                   socket_, grpc_thread_, zmq_thread_, gpc, zpc, inflight,
                   sent, dropped, faulted>>

\* ------------------------------------------------------------ server: start_grpc()
\* builder...; grpc_server_ = builder.BuildAndStart(); if (!grpc_server_) throw
grpc_build(ok) ==
    /\ Alive /\ role = "server" /\ gpc = "build"
    /\ IF ok
         THEN /\ grpc_server_' = "serving"
              /\ gpc' = "wait"
              /\ ev' = NoEv
              /\ UNCHANGED <<running_, faulted>>
         ELSE /\ grpc_server_' = "null"
              /\ running_' = FALSE
              /\ faulted' = TRUE
              /\ gpc' = "done"
              /\ ev' = E("grpc_fault", NoMsg)
    /\ UNCHANGED <<role, config, cliOnly, budget, proc, config_, mutex_, queue_mutex_, zmq_message_queue_,
                   context_, socket_, grpc_thread_, zmq_thread_, zpc, inflight, cop,
                   cpc, nsent, sent, dropped>>

\* grpc_server_->Wait() returns once Shutdown() has been called.  When
\* cleanup_resources has reset grpc_server_ under the waiting thread the call
\* uses a destroyed object: the thread either leaves or the process dies.
grpc_wait ==
    /\ Alive /\ role = "server" /\ gpc = "wait"
    /\ \/ /\ grpc_server_ = "shut"
          /\ gpc' = "done"
          /\ ev' = NoEv
          /\ UNCHANGED proc
       \/ /\ grpc_server_ = "null"
          /\ gpc' = "done"
          /\ ev' = NoEv
          /\ UNCHANGED proc
       \/ /\ grpc_server_ = "null"
          /\ proc' = "ub"
          /\ ev' = E("ub", NoMsg)
          /\ UNCHANGED gpc
    /\ UNCHANGED <<role, config, cliOnly, budget, config_, running_, mutex_, queue_mutex_, zmq_message_queue_,
                   grpc_server_, context_, socket_, grpc_thread_, zmq_thread_, zpc,
                   inflight, cop, cpc, nsent, sent, dropped, faulted>>

\* ------------------------------------------------------------ server: start_zmq()
\* the catch blocks of start_zmq: running_.store(false), thread function returns
zmq_catch(k) ==
    /\ running_' = FALSE
    /\ faulted' = TRUE
    /\ zpc' = "done"
    /\ ev' = E(k, NoMsg)

\* context_ = make_unique<context_t>; socket_ = make_unique<socket_t>; set(...)
zmq_setup ==
    /\ Alive /\ role = "server" /\ zpc = "setup"
    /\ \/ /\ context_' = TRUE /\ socket_' = TRUE
          /\ zpc' = "bind" /\ ev' = NoEv
          /\ UNCHANGED <<running_, faulted>>
       \/ /\ zmq_catch("setup_fault")
          /\ UNCHANGED <<context_, socket_>>
       \/ /\ context_' = TRUE
          /\ zmq_catch("setup_fault")
          /\ UNCHANGED socket_
       \/ /\ context_' = TRUE /\ socket_' = TRUE
          /\ zmq_catch("setup_fault")
    /\ UNCHANGED <<role, config, cliOnly, budget, proc, config_, mutex_, queue_mutex_, zmq_message_queue_,
                   grpc_server_, grpc_thread_, zmq_thread_, gpc, inflight, cop, cpc,
                   nsent, sent, dropped>>

\* a use of *socket_ after cleanup_resources has reset it: the process dies or
\* the call fails with zmq::error_t
socket_gone(k) ==
    /\ ~socket_
    /\ \/ /\ proc' = "ub"
          /\ ev' = E("ub", NoMsg)
          /\ UNCHANGED <<running_, faulted, zpc>>
       \/ /\ zmq_catch(k)
          /\ UNCHANGED proc

\* socket_->bind(config_.zmq_addr)
zmq_bind ==
    /\ Alive /\ role = "server" /\ zpc = "bind"
    /\ \/ /\ socket_
          /\ zpc' = "loop" /\ ev' = NoEv
          /\ UNCHANGED <<proc, running_, faulted>>
       \/ /\ socket_
          /\ zmq_catch("setup_fault")
          /\ UNCHANGED proc
       \/ socket_gone("setup_fault")
    /\ UNCHANGED <<role, config, cliOnly, budget, config_, mutex_, queue_mutex_, zmq_message_queue_,
                   grpc_server_, context_, socket_, grpc_thread_, zmq_thread_, gpc,
                   inflight, cop, cpc, nsent, sent, dropped>>

\* while (running_.load()) and the socket-type test that follows it
zmq_loop ==
    /\ Alive /\ role = "server" /\ zpc = "loop"
    /\ zpc' = IF ~running_ THEN "done"
              ELSE IF CanRecv(config_.zmq_socket_type) THEN "recv" ELSE "psq_try"
    /\ ev' = NoEv
    /\ UNCHANGED <<role, config, cliOnly, budget, proc, config_, running_, mutex_, queue_mutex_,
                   zmq_message_queue_, grpc_server_, context_, socket_, grpc_thread_,
                   zmq_thread_, gpc, inflight, cop, cpc, nsent, sent,
                   dropped, faulted>>

\* socket_->recv(message, dontwait); the handler call
zmq_recv ==
    /\ Alive /\ role = "server" /\ zpc = "recv"
    /\ \/ /\ socket_
          /\ zpc' = "psq_try" /\ ev' = NoEv
          /\ UNCHANGED <<proc, running_, faulted>>
       \/ /\ socket_
          /\ zpc' = "psq_try" /\ ev' = E("handler", NoMsg)
          /\ UNCHANGED <<proc, running_, faulted>>
       \/ /\ socket_
          /\ zmq_catch("recv_fault")
          /\ UNCHANGED proc
       \/ socket_gone("recv_fault")
    /\ UNCHANGED <<role, config, cliOnly, budget, config_, mutex_, queue_mutex_, zmq_message_queue_,
                   grpc_server_, context_, socket_, grpc_thread_, zmq_thread_, gpc,
                   inflight, cop, cpc, nsent, sent, dropped>>

\* ------------------------------------------------------------ server: process_send_queue()
\* unique_lock(queue_mutex_, try_to_lock); if (!owns_lock()) return; then sleep
psq_try_lock ==
    /\ Alive /\ role = "server" /\ zpc = "psq_try"
    /\ IF queue_mutex_ = "free"
         THEN /\ queue_mutex_' = "zmq"
              /\ zpc' = "psq_loop"
         ELSE /\ zpc' = "loop"
              /\ UNCHANGED queue_mutex_
    /\ ev' = NoEv
    /\ UNCHANGED <<role, config, cliOnly, budget, proc, config_, running_, mutex_, zmq_message_queue_,
                   grpc_server_, context_, socket_, grpc_thread_, zmq_thread_, gpc,
                   inflight, cop, cpc, nsent, sent, dropped, faulted>>

\* the dequeue step without lock.unlock(): the send would run under queue_mutex_
psq_dequeue_locked ==
    /\ Alive /\ role = "server" /\ zpc = "psq_loop"
    /\ IF zmq_message_queue_ # <<>> /\ running_
         THEN /\ inflight' = Head(zmq_message_queue_)
              /\ zmq_message_queue_' = Tail(zmq_message_queue_)
              /\ zpc' = "psq_send"
              /\ UNCHANGED queue_mutex_
         ELSE /\ zpc' = "loop"
              /\ queue_mutex_' = "free"
              /\ UNCHANGED <<inflight, zmq_message_queue_>>
    /\ ev' = NoEv
    /\ UNCHANGED <<role, config, cliOnly, budget, proc, config_, running_, mutex_, grpc_server_, context_,
                   socket_, grpc_thread_, zmq_thread_, gpc, cop, cpc, nsent,
                   sent, dropped, faulted>>

\* while (!queue.empty() && running_): message = move(front); pop; lock.unlock()
psq_dequeue ==
    /\ Alive /\ role = "server" /\ zpc = "psq_loop"
    /\ IF zmq_message_queue_ # <<>> /\ running_
         THEN /\ inflight' = Head(zmq_message_queue_)
              /\ zmq_message_queue_' = Tail(zmq_message_queue_)
              /\ zpc' = "psq_send"
         ELSE /\ zpc' = "loop"
              /\ UNCHANGED <<inflight, zmq_message_queue_>>
    /\ queue_mutex_' = "free"
    /\ ev' = NoEv
    /\ UNCHANGED <<role, config, cliOnly, budget, proc, config_, running_, mutex_, grpc_server_, context_,
                   socket_, grpc_thread_, zmq_thread_, gpc, cop, cpc, nsent,
                   sent, dropped, faulted>>

\* socket_->send(message, dontwait): the socket takes the message, or the call
\* returns an empty result (would block; the result is not inspected), or it
\* throws zmq::error_t, which the catch block answers with break.
psq_send ==
    /\ Alive /\ role = "server" /\ zpc = "psq_send"
    /\ \/ /\ socket_                       \* the socket takes the message
          /\ config_.zmq_socket_type \in {"pub", "push"}
          /\ sent' = Append(sent, inflight)
          /\ zpc' = "psq_relock"
          /\ ev' = E("sent", inflight)
          /\ UNCHANGED <<proc, running_, faulted, dropped>>
       \/ /\ socket_                       \* EAGAIN: send returns an empty result,
          /\ config_.zmq_socket_type = "push" \* nothing is thrown, message destroyed
          /\ dropped' = dropped \cup {inflight}
          /\ zpc' = "psq_relock"
          /\ ev' = E("wouldblock", inflight)
          /\ UNCHANGED <<proc, running_, faulted, sent>>
       \/ /\ socket_
          /\ dropped' = dropped \cup {inflight}
          /\ zpc' = "loop"
          /\ ev' = E("send_fault", inflight)
          /\ UNCHANGED <<proc, running_, faulted, sent>>
       \/ /\ ~socket_
          /\ proc' = "ub"
          /\ ev' = E("ub", NoMsg)
          /\ UNCHANGED <<running_, faulted, zpc, sent, dropped>>
       \/ /\ ~socket_
          /\ dropped' = dropped \cup {inflight}
          /\ zpc' = "loop"
          /\ ev' = E("send_fault", inflight)
          /\ UNCHANGED <<proc, running_, faulted, sent>>
    /\ inflight' = NoMsg
    /\ UNCHANGED <<role, config, cliOnly, budget, config_, mutex_, queue_mutex_, zmq_message_queue_,
                   grpc_server_, context_, socket_, grpc_thread_, zmq_thread_, gpc,
                   cop, cpc, nsent>>

\* lock.lock() after the send
psq_relock ==
    /\ Alive /\ role = "server" /\ zpc = "psq_relock"
    /\ queue_mutex_ = "free"
    /\ queue_mutex_' = "zmq"
    /\ zpc' = "psq_loop"
    /\ ev' = NoEv
    /\ UNCHANGED <<role, config, cliOnly, budget, proc, config_, running_, mutex_, zmq_message_queue_,
                   grpc_server_, context_, socket_, grpc_thread_, zmq_thread_, gpc,
                   inflight, cop, cpc, nsent, sent, dropped, faulted>>

\* ------------------------------------------------------------ client: connect()
ClientOps == {"connect", "disconnect", "destroy"}

\* a caller thread calls connect(config)
connect_call(c) ==
    /\ Alive /\ role = "client" /\ cop[c] = "none"
    /\ budget.start > 0
    /\ budget' = [budget EXCEPT !.start = @ - 1]
    /\ cop' = [cop EXCEPT ![c] = "connect"]
    /\ cpc' = [cpc EXCEPT ![c] = "lock"]
    /\ ev' = NoEv
    /\ UNCHANGED <<role, config, srvOnly, cliOnly, proc, config_, mutex_, context_, socket_,
                   zmq_thread_, zpc, nsent, sent, dropped, faulted>>

\* lock_guard(mutex_); the connected_ check; config_ = config; validate_config()
connect_lock(c, cfg) ==
    /\ At(c, "connect", "lock") /\ role = "client" /\ mutex_ = "free"
    /\ IF connected_
         THEN /\ Return(c, "connect_noop")
              /\ UNCHANGED <<config_, mutex_>>
         ELSE /\ config_' = cfg
              /\ mutex_' = c
              /\ IF validate_config(cfg)
                   THEN Goto(c, "channel")
                   ELSE Goto(c, "cl_socket")
    /\ UNCHANGED <<role, config, srvOnly, cliOnly, budget, proc, context_, socket_,
                   zmq_thread_, zpc, nsent, sent, dropped, faulted>>

\* setup_grpc_channel(): CreateCustomChannel, then WaitForConnected(deadline)
\* either succeeds or runs into the deadline and throws
setup_grpc_channel(c, reachable) ==
    /\ At(c, "connect", "channel")
    /\ grpc_channel_' = TRUE
    /\ IF reachable THEN Goto(c, "spawn") ELSE Goto(c, "cl_socket")
    /\ UNCHANGED <<role, config, srvOnly, connected_, socket_mutex_, budget, proc, config_,
                   mutex_, context_, socket_, zmq_thread_, zpc, nsent, sent, dropped,
                   faulted>>

\* zmq_thread_ = std::thread(&start_zmq, this)
connect_spawn(c) ==
    /\ At(c, "connect", "spawn")
    /\ \/ /\ zmq_thread_
          /\ proc' = "terminated"
          /\ ev' = E("terminate", NoMsg)
          /\ UNCHANGED <<zmq_thread_, zpc, cop, cpc, faulted>>
       \/ /\ ~zmq_thread_
          /\ Goto(c, "cl_socket")
          /\ UNCHANGED <<proc, zmq_thread_, zpc, faulted>>
       \/ /\ ~zmq_thread_
          /\ zmq_thread_' = TRUE /\ zpc' = "ctx"
          /\ faulted' = FALSE
          /\ Goto(c, "store")
          /\ UNCHANGED proc
    /\ UNCHANGED <<role, config, srvOnly, cliOnly, budget, config_, mutex_, context_, socket_,
                   nsent, sent, dropped>>

\* connected_.store(true); return (releasing mutex_)
connect_store(c) ==
    /\ At(c, "connect", "store")
    /\ connected_' = TRUE
    /\ mutex_' = "free"
    /\ Return(c, "connect_ok")
    /\ UNCHANGED <<role, config, srvOnly, socket_mutex_, grpc_channel_, budget, proc, config_,
                   context_, socket_, zmq_thread_, zpc, nsent, sent, dropped, faulted>>

\* ------------------------------------------------------------ client: disconnect(), ~mirage_rpc_client()
\* a caller thread calls disconnect()
disconnect_call(c) ==
    /\ Alive /\ role = "client" /\ cop[c] = "none"
    /\ budget.stop > 0
    /\ budget' = [budget EXCEPT !.stop = @ - 1]
    /\ cop' = [cop EXCEPT ![c] = "disconnect"]
    /\ cpc' = [cpc EXCEPT ![c] = "lock"]
    /\ ev' = NoEv
    /\ UNCHANGED <<role, config, srvOnly, cliOnly, proc, config_, mutex_, context_, socket_,
                   zmq_thread_, zpc, nsent, sent, dropped, faulted>>

\* the destructor runs on a thread when no other thread is inside a method
client_destroy_call(c) ==
    /\ Alive /\ role = "client"
    /\ \A d \in Callers : cop[d] = "none"
    /\ cop' = [cop EXCEPT ![c] = "destroy"]
    /\ cpc' = [cpc EXCEPT ![c] = "lock"]
    /\ ev' = NoEv
    /\ UNCHANGED <<role, config, srvOnly, cliOnly, budget, proc, config_, mutex_, context_,
                   socket_, zmq_thread_, zpc, nsent, sent, dropped, faulted>>

\* lock_guard(mutex_); if (!connected_) return; connected_.store(false)
disconnect_lock(c) ==
    /\ Alive /\ cop[c] \in {"disconnect", "destroy"} /\ cpc[c] = "lock"
    /\ role = "client"
    /\ mutex_ = "free"
    /\ IF ~connected_
         THEN /\ IF cop[c] = "disconnect"
                   THEN Return(c, "disconnect_noop")
                   ELSE Goto(c, "dtor")
              /\ UNCHANGED <<connected_, mutex_>>
         ELSE /\ connected_' = FALSE
              /\ mutex_' = c
              /\ Goto(c, "join_zmq")
    /\ UNCHANGED <<role, config, srvOnly, socket_mutex_, grpc_channel_, budget, proc, config_,
                   context_, socket_, zmq_thread_, zpc, nsent, sent, dropped, faulted>>

\* if (zmq_thread_.joinable()) zmq_thread_.join()
disconnect_join(c) ==
    /\ Alive /\ cop[c] \in {"disconnect", "destroy"} /\ cpc[c] = "join_zmq"
    /\ role = "client"
    /\ IF zmq_thread_
         THEN /\ zpc = "done"
              /\ zmq_thread_' = FALSE
              /\ zpc' = "idle"
         ELSE UNCHANGED <<zmq_thread_, zpc>>
    /\ Goto(c, "cl_socket")
    /\ UNCHANGED <<role, config, srvOnly, cliOnly, budget, proc, config_, mutex_, context_,
                   socket_, nsent, sent, dropped, faulted>>

\* ------------------------------------------------------------ client: cleanup_resources()
\* { lock_guard(socket_mutex_); if (socket_) { close; reset } }
client_cleanup_socket(c) ==
    /\ Alive /\ role = "client" /\ cop[c] \in ClientOps /\ cpc[c] = "cl_socket"
    /\ socket_mutex_ = "free"
    /\ socket_' = FALSE
    /\ Goto(c, "cl_rest")
    /\ UNCHANGED <<role, config, srvOnly, cliOnly, budget, proc, config_, mutex_, context_,
                   zmq_thread_, zpc, nsent, sent, dropped, faulted>>

\* if (context_) { close; reset }  if (grpc_channel_) reset; then the caller
\* of cleanup_resources leaves: connect() rethrows, disconnect() returns
client_cleanup_rest(c) ==
    /\ Alive /\ role = "client" /\ cop[c] \in ClientOps /\ cpc[c] = "cl_rest"
    /\ context_' = FALSE
    /\ grpc_channel_' = FALSE
    /\ mutex_' = "free"
    /\ CASE cop[c] = "connect" -> Return(c, "connect_err")
         [] cop[c] = "disconnect" -> Return(c, "disconnect_done")
         [] OTHER -> Goto(c, "dtor")
    /\ UNCHANGED <<role, config, srvOnly, connected_, socket_mutex_, budget, proc, config_,
                   socket_, zmq_thread_, zpc, nsent, sent, dropped, faulted>>

\* member destructors after ~mirage_rpc_client()'s disconnect(): ~thread on a
\* joinable handle calls std::terminate
client_destroy_members(c) ==
    /\ At(c, "destroy", "dtor") /\ role = "client"
    /\ proc' = IF zmq_thread_ THEN "terminated" ELSE "destroyed"
    /\ ev' = E(IF zmq_thread_ THEN "terminate" ELSE "destroyed", NoMsg)
    /\ UNCHANGED <<role, config, srvOnly, cliOnly, budget, config_, mutex_, context_, socket_,
                   zmq_thread_, zpc, cop, cpc, nsent, sent, dropped, faulted>>

\* ------------------------------------------------------------ client: zmq_send()
\* the argument, connected_ and socket-type checks of zmq_send(data, size)
client_zmq_send_call(c, p) ==
    /\ Alive /\ role = "client" /\ cop[c] = "none"
    /\ IF p = NoMsg
         THEN /\ ev' = E("send_invalid", NoMsg)
              /\ UNCHANGED <<cop, cpc, budget>>
         ELSE IF ~connected_
           THEN /\ ev' = E("send_notrunning", NoMsg)
                /\ UNCHANGED <<cop, cpc, budget>>
           ELSE IF ~ClientCanSend(config_.zmq_socket_type)
             THEN /\ ev' = E("send_unsupported", NoMsg)
                  /\ UNCHANGED <<cop, cpc, budget>>
             ELSE /\ cop' = [cop EXCEPT ![c] = "zmq_send"]
                  /\ cpc' = [cpc EXCEPT ![c] = "cs_lock"]
                  /\ budget' = [budget EXCEPT !.send = @ - 1]
                  /\ ev' = NoEv
    /\ UNCHANGED <<role, config, srvOnly, cliOnly, proc, config_, mutex_, context_, socket_,
                   zmq_thread_, zpc, nsent, sent, dropped, faulted>>

\* lock_guard(socket_mutex_)
client_zmq_send_lock(c) ==
    /\ At(c, "zmq_send", "cs_lock") /\ role = "client"
    /\ socket_mutex_ = "free"
    /\ socket_mutex_' = c
    /\ Goto(c, "cs_send")
    /\ UNCHANGED <<role, config, srvOnly, connected_, grpc_channel_, budget, proc, config_,
                   mutex_, context_, socket_, zmq_thread_, zpc, nsent, sent, dropped,
                   faulted>>

\* if (socket_) socket_->send(message, send_flags::none); unlock; return.
\* With socket_ == nullptr nothing is sent and the call returns normally.
client_zmq_send_send(c) ==
    /\ At(c, "zmq_send", "cs_send") /\ role = "client"
    /\ \/ /\ socket_
          /\ sent' = Append(sent, NextPayload(c))
          /\ ev' = E("send_ok", NextPayload(c))
          /\ UNCHANGED dropped
       \/ /\ socket_
          /\ ev' = E("send_failed", NextPayload(c))
          /\ UNCHANGED <<sent, dropped>>
       \/ /\ ~socket_
          /\ dropped' = dropped \cup {NextPayload(c)}
          /\ ev' = E("send_ok", NextPayload(c))
          /\ UNCHANGED sent
    /\ socket_mutex_' = "free"
    /\ nsent' = [nsent EXCEPT ![c] = @ + 1]
    /\ cop' = [cop EXCEPT ![c] = "none"]
    /\ cpc' = [cpc EXCEPT ![c] = "idle"]
    /\ UNCHANGED <<role, config, srvOnly, connected_, grpc_channel_, budget, proc, config_,
                   mutex_, context_, socket_, zmq_thread_, zpc, faulted>>

\* ------------------------------------------------------------ client: subscribe_topic(), unsubscribe_topic()
TopicOps == {"subscribe_topic", "unsubscribe_topic"}

\* the socket-type check of subscribe_topic / unsubscribe_topic on a caller thread
topic_call(c, op) ==
    /\ Alive /\ role = "client" /\ cop[c] = "none"
    /\ IF config_.zmq_socket_type # "sub"
         THEN /\ ev' = E("topic_unsupported", NoMsg)
              /\ UNCHANGED <<cop, cpc>>
         ELSE /\ cop' = [cop EXCEPT ![c] = op]
              /\ cpc' = [cpc EXCEPT ![c] = "t_lock"]
              /\ ev' = NoEv
    /\ UNCHANGED <<role, config, srvOnly, cliOnly, budget, proc, config_, mutex_, context_,
                   socket_, zmq_thread_, zpc, nsent, sent, dropped, faulted>>

\* lock_guard(socket_mutex_)
topic_lock(c) ==
    /\ Alive /\ role = "client" /\ cop[c] \in TopicOps /\ cpc[c] = "t_lock"
    /\ socket_mutex_ = "free"
    /\ socket_mutex_' = c
    /\ Goto(c, "t_set")
    /\ UNCHANGED <<role, config, srvOnly, connected_, grpc_channel_, budget, proc, config_,
                   mutex_, context_, socket_, zmq_thread_, zpc, nsent, sent, dropped,
                   faulted>>

\* if (socket_) socket_->set(sockopt::subscribe / unsubscribe, topic); unlock
topic_set(c) ==
    /\ Alive /\ role = "client" /\ cop[c] \in TopicOps /\ cpc[c] = "t_set"
    /\ \/ /\ socket_
          /\ Return(c, "topic_set")
       \/ /\ socket_
          /\ Return(c, "topic_failed")
       \/ /\ ~socket_
          /\ Return(c, "topic_skipped")
    /\ socket_mutex_' = "free"
    /\ UNCHANGED <<role, config, srvOnly, connected_, grpc_channel_, budget, proc, config_,
                   mutex_, context_, socket_, zmq_thread_, zpc, nsent, sent, dropped,
                   faulted>>

\* ------------------------------------------------------------ client: start_zmq()
\* the catch blocks of the client's start_zmq: connected_.store(false)
client_zmq_catch(k) ==
    /\ connected_' = FALSE
    /\ faulted' = TRUE
    /\ zpc' = "done"
    /\ ev' = E(k, NoMsg)

\* context_ = make_unique<context_t>(io_threads)
client_zmq_context ==
    /\ Alive /\ role = "client" /\ zpc = "ctx"
    /\ \/ /\ context_' = TRUE
          /\ zpc' = "sock_lock" /\ ev' = NoEv
          /\ UNCHANGED <<connected_, faulted>>
       \/ /\ client_zmq_catch("setup_fault")
          /\ UNCHANGED context_
    /\ UNCHANGED <<role, config, srvOnly, socket_mutex_, grpc_channel_, budget, proc, config_,
                   mutex_, socket_, zmq_thread_, cop, cpc, nsent, sent, dropped>>

\* lock_guard(socket_mutex_) of the setup block
client_zmq_setup_lock ==
    /\ Alive /\ role = "client" /\ zpc = "sock_lock"
    /\ socket_mutex_ = "free"
    /\ socket_mutex_' = "zmq"
    /\ zpc' = "sock_setup" /\ ev' = NoEv
    /\ UNCHANGED <<role, config, srvOnly, connected_, grpc_channel_, budget, proc, config_,
                   mutex_, context_, socket_, zmq_thread_, cop, cpc, nsent, sent,
                   dropped, faulted>>

\* socket_ = make_unique<socket_t>(*context_, type); set(...); connect(addr).
\* *context_ after cleanup_resources has reset it: the process dies or the
\* constructor throws.
client_zmq_setup ==
    /\ Alive /\ role = "client" /\ zpc = "sock_setup"
    /\ \/ /\ context_
          /\ socket_' = TRUE
          /\ zpc' = "loop" /\ ev' = NoEv
          /\ UNCHANGED <<proc, connected_, faulted>>
       \/ /\ context_
          /\ socket_' = TRUE
          /\ client_zmq_catch("setup_fault")
          /\ UNCHANGED proc
       \/ /\ client_zmq_catch("setup_fault")
          /\ UNCHANGED <<proc, socket_>>
       \/ /\ ~context_
          /\ proc' = "ub"
          /\ ev' = E("ub", NoMsg)
          /\ UNCHANGED <<socket_, connected_, faulted, zpc>>
    /\ socket_mutex_' = "free"
    /\ UNCHANGED <<role, config, srvOnly, grpc_channel_, budget, config_, mutex_, context_,
                   zmq_thread_, cop, cpc, nsent, sent, dropped>>

\* while (connected_.load()), the socket-type test, and the sleep of an
\* iteration that receives nothing
client_zmq_loop ==
    /\ Alive /\ role = "client" /\ zpc = "loop"
    /\ zpc' = IF ~connected_ THEN "done"
              ELSE IF CanRecv(config_.zmq_socket_type) THEN "recv_lock" ELSE "loop"
    /\ ev' = NoEv
    /\ UNCHANGED <<role, config, srvOnly, cliOnly, budget, proc, config_, mutex_, context_,
                   socket_, zmq_thread_, cop, cpc, nsent, sent, dropped, faulted>>

\* lock_guard(socket_mutex_) of the receive block
client_zmq_recv_lock ==
    /\ Alive /\ role = "client" /\ zpc = "recv_lock"
    /\ socket_mutex_ = "free"
    /\ socket_mutex_' = "zmq"
    /\ zpc' = "recv" /\ ev' = NoEv
    /\ UNCHANGED <<role, config, srvOnly, connected_, grpc_channel_, budget, proc, config_,
                   mutex_, context_, socket_, zmq_thread_, cop, cpc, nsent, sent,
                   dropped, faulted>>

\* if (socket_) { recv(dontwait); handler(message) }; unlock; sleep.
\* The handler runs with socket_mutex_ held; a handler that calls
\* subscribe_topic / unsubscribe_topic gets runtime_error unless the type is
\* SUB, and otherwise locks socket_mutex_ again on the thread that owns it.
client_zmq_recv ==
    /\ Alive /\ role = "client" /\ zpc = "recv"
    /\ \/ /\ zpc' = "loop" /\ ev' = NoEv
          /\ socket_mutex_' = "free"
          /\ UNCHANGED <<connected_, faulted>>
       \/ /\ socket_
          /\ zpc' = "loop" /\ ev' = E("handler", NoMsg)
          /\ socket_mutex_' = "free"
          /\ UNCHANGED <<connected_, faulted>>
       \/ /\ socket_
          /\ client_zmq_catch("recv_fault")
          /\ socket_mutex_' = "free"
       \/ /\ socket_ /\ config_.zmq_socket_type # "sub"
          /\ client_zmq_catch("handler_fault")
          /\ socket_mutex_' = "free"
       \/ /\ socket_ /\ config_.zmq_socket_type = "sub"
          /\ zpc' = "handler_lock" /\ ev' = E("handler", NoMsg)
          /\ UNCHANGED <<socket_mutex_, connected_, faulted>>
    /\ UNCHANGED <<role, config, srvOnly, grpc_channel_, budget, proc, config_, mutex_,
                   context_, socket_, zmq_thread_, cop, cpc, nsent, sent, dropped>>

\* lock_guard(socket_mutex_) inside subscribe_topic called from the handler:
\* the worker thread already owns the mutex.  Locking a std::mutex the thread
\* owns is undefined: the thread blocks for ever (no step), or lock() throws
\* std::system_error, which unwinds to start_zmq's catch block.
client_handler_relock ==
    /\ Alive /\ role = "client" /\ zpc = "handler_lock"
    /\ \/ /\ socket_mutex_ = "free"
          /\ socket_mutex_' = "free"
          /\ zpc' = "loop" /\ ev' = NoEv
          /\ UNCHANGED <<connected_, faulted>>
       \/ /\ socket_mutex_ = "zmq"
          /\ client_zmq_catch("handler_fault")
          /\ socket_mutex_' = "free"
    /\ UNCHANGED <<role, config, srvOnly, grpc_channel_, budget, proc, config_, mutex_,
                   context_, socket_, zmq_thread_, cop, cpc, nsent, sent, dropped>>

\* ------------------------------------------------------------ the address builders of the config structs
\* arguments the callers pass to the builders
Hosts == {"", "127.0.0.1", "*"}
Ports == {0 - 1, 0, 1, 50051, 65535, 65536}
Names == {"", "mirage"}

\* what every action of the endpoint leaves alone in a builder call
endpoint == <<role, proc, config_, running_, mutex_, queue_mutex_, zmq_message_queue_,
              grpc_server_, context_, socket_, grpc_thread_, zmq_thread_, gpc, zpc,
              inflight, cop, cpc, budget, nsent, sent, dropped, faulted,
              connected_, socket_mutex_, grpc_channel_>>

\* set_grpc_addr with the lower port test off by one (port < 0): port 0 passes
set_grpc_addr_port0(ip, port) ==
    /\ Alive
    /\ IF ip = "" \/ port < 0 \/ port > 65535
         THEN /\ ev' = E("set_grpc_addr_invalid", <<ip, port>>)
              /\ UNCHANGED config
         ELSE /\ config' = [config EXCEPT !.grpc_addr = ip \o ":" \o ToString(port)]
              /\ ev' = E("set_grpc_addr", <<ip, port>>)
    /\ UNCHANGED endpoint

\* set_grpc_addr(ip, port): throws invalid_argument, or
\* grpc_addr = ip + ":" + std::to_string(port)
set_grpc_addr(ip, port) ==
    /\ Alive
    /\ IF ip = "" \/ port <= 0 \/ port > 65535
         THEN /\ ev' = E("set_grpc_addr_invalid", <<ip, port>>)
              /\ UNCHANGED config
         ELSE /\ config' = [config EXCEPT !.grpc_addr = ip \o ":" \o ToString(port)]
              /\ ev' = E("set_grpc_addr", <<ip, port>>)
    /\ UNCHANGED endpoint

\* set_zmq_ipc_addr(name): throws invalid_argument, or
\* zmq_addr = "ipc:///tmp/" + name + ".sock"
set_zmq_ipc_addr(name) ==
    /\ Alive
    /\ IF name = ""
         THEN /\ ev' = E("set_zmq_ipc_addr_invalid", <<name>>)
              /\ UNCHANGED config
         ELSE /\ config' = [config EXCEPT !.zmq_addr = "ipc:///tmp/" \o name \o ".sock"]
              /\ ev' = E("set_zmq_ipc_addr", <<name>>)
    /\ UNCHANGED endpoint

\* set_zmq_tcp_addr(ip, port): throws invalid_argument, or
\* zmq_addr = "tcp://" + ip + ":" + std::to_string(port)
set_zmq_tcp_addr(ip, port) ==
    /\ Alive
    /\ IF ip = "" \/ port <= 0 \/ port > 65535
         THEN /\ ev' = E("set_zmq_tcp_addr_invalid", <<ip, port>>)
              /\ UNCHANGED config
         ELSE /\ config' = [config EXCEPT
                              !.zmq_addr = "tcp://" \o ip \o ":" \o ToString(port)]
              /\ ev' = E("set_zmq_tcp_addr", <<ip, port>>)
    /\ UNCHANGED endpoint

\* a caller fills in its configuration object through the builders
BuilderNext ==
    \/ \E ip \in Hosts, port \in Ports : set_grpc_addr(ip, port)
    \/ \E name \in Names : set_zmq_ipc_addr(name)
    \/ \E ip \in Hosts, port \in Ports : set_zmq_tcp_addr(ip, port)

BuilderSpec == Init /\ [][BuilderNext]_vars

\* ------------------------------------------------------------ specification
\* the steps of threads that are inside a method or a thread function
ThreadStep ==
    \/ \E c \in Callers :
          \/ (\E cfg \in ServerConfigs : start_lock(c, cfg)) \/ start_spawn(c) \/ start_store(c)
          \/ stop_lock(c) \/ stop_join_grpc(c) \/ stop_join_zmq(c)
          \/ cleanup_handles(c)
          \/ cleanup_queue(c) \/ destroy_members(c)
          \/ zmq_send_lock(c) \/ zmq_send_push(c)
    \/ \E ok \in BOOLEAN : grpc_build(ok)
    \/ grpc_wait
    \/ zmq_setup \/ zmq_bind \/ zmq_loop \/ zmq_recv
    \/ psq_try_lock \/ psq_dequeue \/ psq_send \/ psq_relock
    \/ \E c \in Callers :
          \/ (\E cfg \in ClientConfigs : connect_lock(c, cfg))
          \/ (\E reachable \in BOOLEAN : setup_grpc_channel(c, reachable))
          \/ connect_spawn(c) \/ connect_store(c)
          \/ disconnect_lock(c) \/ disconnect_join(c)
          \/ client_cleanup_socket(c) \/ client_cleanup_rest(c)
          \/ client_destroy_members(c)
          \/ client_zmq_send_lock(c) \/ client_zmq_send_send(c)
          \/ topic_lock(c) \/ topic_set(c)
    \/ client_zmq_context \/ client_zmq_setup_lock \/ client_zmq_setup
    \/ client_zmq_loop \/ client_zmq_recv_lock \/ client_zmq_recv
    \/ client_handler_relock

\* payloads caller c may pass to zmq_send: the empty one, or its next
\* distinct payload while the send budget lasts
Payloads(c) == {NoMsg} \cup (IF budget.send > 0 THEN {NextPayload(c)} ELSE {})

\* a caller thread enters a method
CallStep ==
    \* no method is entered once the destructor has begun
    /\ \A d \in Callers : cop[d] # "destroy"
    /\ \E c \in Callers :
           \/ start_call(c)
           \/ stop_call(c)
           \/ destroy_call(c)
           \/ \E p \in Payloads(c) : zmq_send_call(c, p)
           \/ connect_call(c)
           \/ disconnect_call(c)
           \/ client_destroy_call(c)
           \/ \E p \in Payloads(c) : client_zmq_send_call(c, p)
           \/ \E op \in TopicOps : topic_call(c, op)

Next == ThreadStep \/ CallStep

Spec == Init /\ [][Next]_vars

\* ------------------------------------------------------------ claims
\* a stop() / disconnect() call has just returned
StopReturned == ev.k \in {"stop_done", "stop_noop", "disconnect_done", "disconnect_noop"}

\* C1: whenever stop() / disconnect() returns, the running flag is false; and
\* when the call tore the endpoint down, or a worker had cleared the flag
\* itself before the call, every thread start() / connect() spawned has
\* terminated and been joined.  (Threads left by a failed start are C3's.)
C1_StopLeavesNoThread ==
    /\ StopReturned => (~running_ /\ ~connected_)
    /\ (StopReturned /\ (faulted \/ ev.k \in {"stop_done", "disconnect_done"})) =>
          /\ ~grpc_thread_ /\ ~zmq_thread_
          /\ gpc = "idle" /\ zpc = "idle"

\* C2: start() followed by stop() completes under every interleaving with the
\* two threads' startup: while the stop call is in progress some thread can
\* always take a step (the call is never stuck), and when it has torn the
\* endpoint down both threads have exited and socket and context are closed.
C2_StartStopCompletes ==
    /\ (Alive /\ role = "server" /\ \E c \in Callers : cop[c] = "stop")
          => ENABLED ThreadStep
    /\ ev.k = "stop_done"
          => (gpc = "idle" /\ zpc = "idle" /\ ~socket_ /\ ~context_)

\* C3: when start() / connect() surfaces an error there is no running or
\* un-joined worker thread, no open socket or context and no sync handle.
C3_FailedStartRolledBack ==
    ev.k \in {"start_err", "connect_err"} =>
        /\ ~grpc_thread_ /\ ~zmq_thread_
        /\ gpc = "idle" /\ zpc = "idle"
        /\ ~socket_ /\ ~context_
        /\ grpc_server_ = "null" /\ ~grpc_channel_

\* C4: while the server stays running every payload the producers enqueued
\* reaches the socket exactly once (none duplicated, none dropped), each
\* producer's payloads in the order it enqueued them.
C4_AllPayloadsDelivered ==
    role = "server" =>
        /\ \A i, j \in 1..Len(sent) :
              i < j => /\ sent[i] # sent[j]
                       /\ sent[i][1] = sent[j][1] => sent[i][2] < sent[j][2]
        /\ running_ => dropped = {}

\* C5: a send that meets a would-block condition leaves that message at the
\* head of the outbound queue, to be the next one attempted.
C5_WouldBlockKeepsHead ==
    ev.k = "wouldblock" =>
        /\ zmq_message_queue_ # <<>>
        /\ Head(zmq_message_queue_) = ev.m

\* C6: the outbound queue never holds more messages than config.zmq_hwm.
C6_QueueWithinHwm ==
    role = "server" => Len(zmq_message_queue_) <= config_.zmq_hwm

\* C7: stop() called twice, also from two threads at once: every call returns
\* (while both callers are inside stop() some thread can take a step), and a
\* call that finds the endpoint stopped changes nothing.
C7_StopIdempotent ==
    /\ (Alive /\ role = "server" /\ \A c \in Callers : cop[c] = "stop")
          => ENABLED ThreadStep
    /\ ev.k = "stop_noop" => (~running_ /\ mutex_ = "free")

\* C8: stop() / disconnect() racing start() / connect() or zmq_send() on
\* another thread never deadlocks: some thread can always take a step.
C8_StopNeverDeadlocks ==
    (Alive /\ \E c, d \in Callers :
                  /\ c # d
                  /\ cop[c] \in {"stop", "disconnect"}
                  /\ cop[d] \in {"start", "connect", "zmq_send"})
        => ENABLED ThreadStep

\* C9: a transport error raised in the async worker (socket setup, receive
\* path, send path) clears the running flag and ends the worker's loop.
C9_WorkerErrorStopsEndpoint ==
    ev.k \in {"setup_fault", "recv_fault", "send_fault"} =>
        /\ ~running_ /\ ~connected_
        /\ zpc = "done"

\* C10: after a worker fault has cleared the running flag no later stop(),
\* start() or destruction destroys or overwrites a joinable thread handle
\* (std::terminate).
C10_NoTerminateAfterFault ==
    faulted => proc # "terminated"

\* C11: once start() / connect() has returned successfully, with no worker
\* fault and no stop() since, the async worker is in (or about to enter) its
\* loop: it has not left the loop because it read the flag before start() set it.
C11_WorkerAliveWhileRunning ==
    ((running_ \/ connected_) /\ ~faulted) => zpc \notin {"idle", "done"}

\* C12: whenever the endpoint reports running / connected, its sync transport
\* has been established: the server's gRPC server has been built and is
\* serving, the client's channel exists.
C12_RunningOnlyAfterSyncUp ==
    /\ running_ => grpc_server_ = "serving"
    /\ connected_ => grpc_channel_

\* C13: an async socket handle exists only while the endpoint is starting,
\* running or stopping: with the flag false and no start() / stop() /
\* connect() / disconnect() call holding mutex_ (idle, stopped, errored)
\* socket_ is null.
C13_SocketOnlyWhileActive ==
    socket_ => \/ running_ \/ connected_
               \/ \E c \in Callers : cop[c] \in (LifecycleOps \cup ClientOps) /\ mutex_ = c

\* C14: on every teardown path (stop and failed start alike) the socket and
\* the context are closed and the sync server handle released only after the
\* flag has been cleared and both threads have exited and been joined: when
\* cleanup_resources has reset the handles no thread that uses them is alive.
C14_TeardownOrder ==
    \A c \in Callers :
        /\ (role = "server" /\ cpc[c] = "cl_queue") =>
              /\ ~running_
              /\ ~grpc_thread_ /\ ~zmq_thread_
              /\ gpc = "idle" /\ zpc = "idle"
        /\ (role = "client" /\ cpc[c] = "cl_rest") =>
              /\ ~connected_
              /\ ~zmq_thread_ /\ zpc = "idle"

\* C15: no caller thread executing zmq_send, subscribe_topic or
\* unsubscribe_topic writes to the socket or changes its options: such a call
\* never ends having sent on, or set an option of, an existing socket.
C15_OnlyWorkerTouchesSocket ==
    ~(/\ role = "client"
      /\ socket_
      /\ ev.k \in {"send_ok", "send_failed", "topic_set", "topic_failed"})

\* a configuration that is invalid: an empty address, a host:port or
\* tcp://host:port address whose port is outside 1..65535, an IPC address with
\* an empty name
InvalidConfiguration(cfg) ==
    \/ cfg.grpc_addr = ""
    \/ cfg.zmq_addr = ""
    \/ cfg.zmq_addr = "ipc:///tmp/.sock"
    \/ \E ip \in {"0.0.0.0"} \cup Hosts, port \in Ports :
          /\ port \notin 1..65535
          /\ \/ cfg.grpc_addr = ip \o ":" \o ToString(port)
             \/ cfg.zmq_addr = "tcp://" \o ip \o ":" \o ToString(port)

\* C16: with an invalid configuration, however its fields were assigned,
\* start() / connect() goes from validation straight to its error path: it
\* never reaches the thread spawn, the channel setup or the flag store, and
\* never returns success.
C16_InvalidConfigRejected ==
    /\ \A c \in Callers :
          (cop[c] \in {"start", "connect"} /\ mutex_ = c /\ InvalidConfiguration(config_))
              => cpc[c] \in {"cl_socket", "cl_queue", "cl_rest"}
    /\ ev.k \in {"start_ok", "connect_ok"} => ~InvalidConfiguration(config_)

\* C17: start() / connect() on an endpoint that is not idle is a no-op: a call
\* returns as a no-op only with the flag set (and leaves it set), and a call
\* that goes on to perform the startup does not find the async worker of an
\* earlier, successful startup still un-joined: between two stops exactly one
\* call performs the startup.
C17_StartWhileNotIdleNoop ==
    /\ ev.k = "start_noop" => running_
    /\ ev.k = "connect_noop" => connected_
    /\ \A c \in Callers :
          /\ (role = "server" /\ cop[c] = "start" /\ cpc[c] = "spawn") =>
                (~zmq_thread_ /\ zpc = "idle")
          /\ (role = "client" /\ cop[c] = "connect" /\ cpc[c] \in {"channel", "spawn"}) =>
                (~zmq_thread_ /\ zpc = "idle")

\* C18: the server's zmq_send fails with the invalid-payload error for an
\* empty payload and with the not-running error when running_ is false, both
\* times leaving the queue as it was; every other call appends exactly one
\* message, the payload, at the tail of the queue.
C18_ZmqSendContract ==
    [][\A c \in Callers :
          /\ \A p \in {NoMsg, NextPayload(c)} :
                zmq_send_call(c, p) =>
                    /\ UNCHANGED zmq_message_queue_
                    /\ IF p = NoMsg THEN ev'.k = "send_invalid"
                       ELSE IF ~running_ THEN ev'.k = "send_notrunning"
                       ELSE cop'[c] = "zmq_send"
          /\ (role = "server" /\ cop[c] = "zmq_send" /\ cop'[c] = "none") =>
                /\ ev' = E("send_ok", NextPayload(c))
                /\ zmq_message_queue_' = Append(zmq_message_queue_, NextPayload(c))
      ]_vars

\* a running server's zmq_send has appended its payload behind a queued one
C18_Appended ==
    /\ role = "server" /\ ev.k = "send_ok"
    /\ Len(zmq_message_queue_) = 2
    /\ zmq_message_queue_[2] = ev.m

\* C19: for a non-empty host H and a port P in 1..65535 the builders render
\* the sync address as H:P and the async TCP address as tcp://H:P, and for a
\* non-empty name N the async IPC address as ipc:///tmp/N.sock, touching no
\* other field; for an empty host or name, or a port outside 1..65535, they
\* fail and leave the configuration unchanged.
C19_AddressBuilders ==
    [][/\ \A ip \in Hosts, port \in Ports :
             /\ set_grpc_addr(ip, port) =>
                   IF ip # "" /\ port \in 1..65535
                     THEN /\ ev'.k = "set_grpc_addr"
                          /\ config' = [config EXCEPT
                                          !.grpc_addr = ip \o ":" \o ToString(port)]
                     ELSE /\ ev'.k = "set_grpc_addr_invalid"
                          /\ UNCHANGED config
             /\ set_zmq_tcp_addr(ip, port) =>
                   IF ip # "" /\ port \in 1..65535
                     THEN /\ ev'.k = "set_zmq_tcp_addr"
                          /\ config' = [config EXCEPT
                                          !.zmq_addr = "tcp://" \o ip \o ":" \o ToString(port)]
                     ELSE /\ ev'.k = "set_zmq_tcp_addr_invalid"
                          /\ UNCHANGED config
       /\ \A name \in Names :
             set_zmq_ipc_addr(name) =>
                   IF name # ""
                     THEN /\ ev'.k = "set_zmq_ipc_addr"
                          /\ config' = [config EXCEPT
                                          !.zmq_addr = "ipc:///tmp/" \o name \o ".sock"]
                     ELSE /\ ev'.k = "set_zmq_ipc_addr_invalid"
                          /\ UNCHANGED config
       /\ (ev'.k = "set_grpc_addr" /\ ev'.m = <<"127.0.0.1", 50051>>)
             => config'.grpc_addr = "127.0.0.1:50051"
       /\ (ev'.k = "set_zmq_ipc_addr" /\ ev'.m = <<"mirage">>)
             => config'.zmq_addr = "ipc:///tmp/mirage.sock"
      ]_vars

\* the builders have rendered all three address forms, at the largest port
C19_Rendered ==
    /\ ev.k = "set_zmq_tcp_addr" /\ ev.m = <<"*", 65535>>
    /\ config.zmq_addr = "tcp://*:65535"
    /\ config.grpc_addr = "127.0.0.1:1"

\* the socket modes in which the server may send
ServerCanSend(t) == t \in {"pub", "push", "rep"}

\* C20: the server attempts a send on the async socket only in a mode that
\* permits sending (pub, push, rep): whenever the worker has passed a queued
\* payload to a socket send, whatever the outcome, the configured mode
\* permits sending; in a receive-only mode no payload reaches a send.
C20_SendOnlyInSendMode ==
    (role = "server" /\ ev.k \in {"sent", "wouldblock", "send_fault"})
        => ServerCanSend(config_.zmq_socket_type)

\* C21: the worker never holds queue_mutex_ while a send is in flight: with a
\* message between dequeue and send, a producer inside zmq_send can take the
\* lock and enqueue (or another producer is doing so); and the worker owns
\* the lock whenever it is about to inspect or modify the queue.
C21_QueueLockFreeDuringSend ==
    /\ zpc \in {"psq_send", "psq_relock"} => queue_mutex_ # "zmq"
    /\ (Alive /\ role = "server" /\ zpc = "psq_send") =>
          \A c \in Callers :
              cop[c] = "zmq_send" =>
                  \/ ENABLED (zmq_send_lock(c) \/ zmq_send_push(c))
                  \/ queue_mutex_ \in Callers \ {c}
    /\ (role = "server" /\ zpc = "psq_loop") => queue_mutex_ = "zmq"

\* a producer has enqueued a payload while the worker's send was in flight
C21_EnqueuedDuringSend ==
    /\ role = "server" /\ zpc = "psq_send" /\ inflight # NoMsg
    /\ ev.k = "send_ok"
    /\ zmq_message_queue_ = <<ev.m>>

\* the server is stopped: running_ is false, no start() / stop() holds mutex_
\* and no thread handle is joinable (never started, or stop() has returned)
Stopped ==
    /\ role = "server"
    /\ ~running_ /\ mutex_ = "free"
    /\ ~grpc_thread_ /\ ~zmq_thread_

\* C22: queued outbound messages never cross a lifecycle boundary: whenever
\* the server is stopped the outbound queue is empty, also when zmq_send
\* calls ran concurrently with stop(), so no payload of an earlier running
\* period is left for the worker of a later start().  (Lifecycles with no
\* worker fault: the faults are C9's and C10's.)
C22_QueueEmptyAfterStop ==
    (Stopped /\ ~faulted) => zmq_message_queue_ = <<>>

\* C23: a client zmq_send call that returns without throwing has passed its
\* payload to the socket, exactly once: the payload is the last one the
\* socket accepted, it was accepted only once, and it was not discarded.
C23_ClientSendReachesSocket ==
    (role = "client" /\ ev.k = "send_ok") =>
        /\ ev.m \notin dropped
        /\ Len(sent) > 0 /\ sent[Len(sent)] = ev.m
        /\ \A i \in 1..(Len(sent) - 1) : sent[i] # ev.m

\* C24: a handler that calls subscribe_topic / unsubscribe_topic on its own
\* client never brings the worker thread to lock socket_mutex_ while that
\* thread owns it: the worker is never at the lock_guard of the nested call
\* with the mutex held by itself.
C24_HandlerNeverRelocks ==
    ~(/\ role = "client"
      /\ zpc = "handler_lock"
      /\ socket_mutex_ = "zmq")

\* C25: the inbound handler is invoked only by the async worker thread, in
\* its receive step and once per receive; the worker reaches a receive only
\* after reading the flag as set; when a stop() / disconnect() that found the
\* endpoint running returns, the worker has exited and been joined, and a
\* worker comes to exist again only in the spawn step of a start() /
\* connect() that goes on to store the flag and return successfully.
C25_HandlerOnlyOnLiveWorker ==
    [][/\ ev'.k = "handler" =>
             /\ zpc = "recv" /\ zpc' # "recv"
             /\ zmq_thread_
             /\ UNCHANGED <<cop, cpc>>
       /\ (zpc = "loop" /\ zpc' \in {"recv", "recv_lock"}) =>
             IF role = "server" THEN running_ ELSE connected_
       /\ ev'.k \in {"stop_done", "disconnect_done"} =>
             (zpc' = "idle" /\ ~zmq_thread_')
       /\ (zpc = "idle" /\ zpc' # "idle") =>
             \E c \in Callers :
                 /\ cop[c] \in {"start", "connect"}
                 /\ cpc[c] = "spawn" /\ cpc'[c] = "store"
      ]_vars

\* the worker of a second lifecycle has invoked the handler: a payload was
\* sent in a first running period (a sending socket type), stop() has torn
\* that period down, and the worker of a later, successful start() with a
\* receiving socket type has received a message
C25_HandlerInSecondLifecycle ==
    /\ role = "server"
    /\ ev.k = "handler"
    /\ sent # <<>>
    /\ CanRecv(config_.zmq_socket_type)
    /\ running_ /\ ~faulted
    /\ budget.start = 0 /\ budget.stop = 0

====
